---- MODULE Spec2Model ----
(***************************************************************************)
(* Model of run.py: the ingestion functions, build_context_bundle and the  *)
(* pipeline orchestrator main().                                           *)
(*                                                                         *)
(* A text is a sequence of characters.  A character is a one-character     *)
(* string; a longer string stands for an opaque run of text that neither   *)
(* starts nor ends with whitespace and contains no JSON syntax.            *)
(***************************************************************************)
EXTENDS Naturals, Sequences, FiniteSets, TLC

----------------------------------------------------------------------------
(* Text helpers: str.strip, truthiness of str, "\n".join                   *)

\* the ASCII whitespace removed by str.strip()
PyWhitespace == {" ", "\n", "\t", "\r", "\f"}

RECURSIVE LStrip(_)
LStrip(s) ==
    IF s # <<>> /\ Head(s) \in PyWhitespace THEN LStrip(Tail(s)) ELSE s

RECURSIVE RStrip(_)
RStrip(s) ==
    IF s # <<>> /\ s[Len(s)] \in PyWhitespace
    THEN RStrip(SubSeq(s, 1, Len(s) - 1))
    ELSE s

\* str.strip()
Strip(s) == RStrip(LStrip(s))

\* bool(s) for a str s
StrTruthy(s) == s # <<>>

\* sep.join(parts) for a list of texts
RECURSIVE Join(_, _)
Join(sep, parts) ==
    IF parts = <<>> THEN <<>>
    ELSE IF Len(parts) = 1 THEN parts[1]
    ELSE parts[1] \o sep \o Join(sep, Tail(parts))

----------------------------------------------------------------------------
(* json.loads and json.dumps(indent=2) on texts over the characters        *)
(*   whitespace  [ ] { } , : "  digits  and the literals null true false.  *)
(* Signs, fractions, exponents and backslash escapes are not in the        *)
(* alphabet of the texts the model draws.  A JSON value is a tagged tuple: *)
(*   <<"null">> <<"true">> <<"false">> <<"num", digits>> <<"str", chars>>  *)
(*   <<"arr", items>>  <<"obj", pairs>> with pairs a sequence of           *)
(*   <<key chars, value>> in insertion order.                              *)

JsonWhitespace == {" ", "\n", "\t", "\r"}
Digits == {"0", "1", "2", "3", "4", "5", "6", "7", "8", "9"}
ControlChars == {"\n", "\t", "\r", "\f"}

JFail == [ok |-> FALSE, val |-> <<"null">>, next |-> 0]
JOk(v, n) == [ok |-> TRUE, val |-> v, next |-> n]

RECURSIVE SkipWs(_, _)
SkipWs(s, i) ==
    IF i <= Len(s) /\ s[i] \in JsonWhitespace THEN SkipWs(s, i + 1) ELSE i

\* s[i..] starts with the characters of lit
StartsWith(s, i, lit) ==
    /\ i + Len(lit) - 1 <= Len(s)
    /\ SubSeq(s, i, i + Len(lit) - 1) = lit

\* index one past the last digit of the digit run starting at i
RECURSIVE DigitsEnd(_, _)
DigitsEnd(s, i) ==
    IF i <= Len(s) /\ s[i] \in Digits THEN DigitsEnd(s, i + 1) ELSE i

\* index of the closing quote of the string whose first character is at i,
\* or 0 when the string is unterminated or holds a control character
RECURSIVE StringEnd(_, _)
StringEnd(s, i) ==
    IF i > Len(s) THEN 0
    ELSE IF s[i] = "\"" THEN i
    ELSE IF s[i] \in ControlChars THEN 0
    ELSE StringEnd(s, i + 1)

\* dict insertion: a repeated key keeps its place and takes the new value
PutMember(pairs, k, v) ==
    IF \E n \in 1..Len(pairs) : pairs[n][1] = k
    THEN [n \in 1..Len(pairs) |->
            IF pairs[n][1] = k THEN <<k, v>> ELSE pairs[n]]
    ELSE Append(pairs, <<k, v>>)

RECURSIVE ParseValue(_, _)
RECURSIVE ParseItems(_, _, _)
RECURSIVE ParseMembers(_, _, _)

\* the items of an array, the first of them at i; acc holds those parsed
ParseItems(s, i, acc) ==
    LET r == ParseValue(s, i) IN
    IF ~r.ok THEN JFail
    ELSE LET j == SkipWs(s, r.next)
             items == Append(acc, r.val) IN
         IF j > Len(s) THEN JFail
         ELSE IF s[j] = "]" THEN JOk(<<"arr", items>>, j + 1)
         ELSE IF s[j] = "," THEN ParseItems(s, SkipWs(s, j + 1), items)
         ELSE JFail

\* the members of an object, the opening quote of the first key at i
ParseMembers(s, i, acc) ==
    IF i > Len(s) \/ s[i] # "\"" THEN JFail
    ELSE LET e == StringEnd(s, i + 1) IN
         IF e = 0 THEN JFail
         ELSE LET key == SubSeq(s, i + 1, e - 1)
                  c == SkipWs(s, e + 1) IN
              IF c > Len(s) \/ s[c] # ":" THEN JFail
              ELSE LET r == ParseValue(s, SkipWs(s, c + 1)) IN
                   IF ~r.ok THEN JFail
                   ELSE LET j == SkipWs(s, r.next)
                            pairs == PutMember(acc, key, r.val) IN
                        IF j > Len(s) THEN JFail
                        ELSE IF s[j] = "}" THEN JOk(<<"obj", pairs>>, j + 1)
                        ELSE IF s[j] = ","
                             THEN ParseMembers(s, SkipWs(s, j + 1), pairs)
                        ELSE JFail

\* scan_once: the value that starts at i
ParseValue(s, i) ==
    IF i > Len(s) THEN JFail
    ELSE IF s[i] = "[" THEN
        LET j == SkipWs(s, i + 1) IN
        IF j <= Len(s) /\ s[j] = "]" THEN JOk(<<"arr", <<>>>>, j + 1)
        ELSE ParseItems(s, j, <<>>)
    ELSE IF s[i] = "{" THEN
        LET j == SkipWs(s, i + 1) IN
        IF j <= Len(s) /\ s[j] = "}" THEN JOk(<<"obj", <<>>>>, j + 1)
        ELSE ParseMembers(s, j, <<>>)
    ELSE IF s[i] = "\"" THEN
        LET e == StringEnd(s, i + 1) IN
        IF e = 0 THEN JFail ELSE JOk(<<"str", SubSeq(s, i + 1, e - 1)>>, e + 1)
    ELSE IF s[i] = "0" THEN JOk(<<"num", <<"0">>>>, i + 1)
    ELSE IF s[i] \in Digits THEN
        LET e == DigitsEnd(s, i) IN JOk(<<"num", SubSeq(s, i, e - 1)>>, e)
    ELSE IF StartsWith(s, i, <<"n", "u", "l", "l">>) THEN JOk(<<"null">>, i + 4)
    ELSE IF StartsWith(s, i, <<"t", "r", "u", "e">>) THEN JOk(<<"true">>, i + 4)
    ELSE IF StartsWith(s, i, <<"f", "a", "l", "s", "e">>)
         THEN JOk(<<"false">>, i + 5)
    ELSE JFail

\* json.loads(text): ok is FALSE where json.loads raises JSONDecodeError
json_loads(text) ==
    LET r == ParseValue(text, SkipWs(text, 1)) IN
    IF r.ok /\ SkipWs(text, r.next) = Len(text) + 1 THEN r ELSE JFail

\* bool(v) for a parsed value
JsonTruthy(v) ==
    IF v[1] \in {"null", "false"} THEN FALSE
    ELSE IF v[1] = "true" THEN TRUE
    ELSE IF v[1] = "num" THEN v[2] # <<"0">>
    ELSE v[2] # <<>>

Spaces(n) == [k \in 1..n |-> " "]

RECURSIVE Dumps(_, _)
RECURSIVE DumpItems(_, _, _)
RECURSIVE DumpMembers(_, _, _)

DumpItems(items, lvl, first) ==
    IF items = <<>> THEN <<>>
    ELSE (IF first THEN <<>> ELSE <<",">>)
         \o <<"\n">> \o Spaces(2 * lvl) \o Dumps(Head(items), lvl)
         \o DumpItems(Tail(items), lvl, FALSE)

DumpMembers(pairs, lvl, first) ==
    IF pairs = <<>> THEN <<>>
    ELSE (IF first THEN <<>> ELSE <<",">>)
         \o <<"\n">> \o Spaces(2 * lvl)
         \o <<"\"">> \o Head(pairs)[1] \o <<"\"", ":", " ">>
         \o Dumps(Head(pairs)[2], lvl)
         \o DumpMembers(Tail(pairs), lvl, FALSE)

\* json.dumps(v, indent=2) of a value nested lvl levels deep
Dumps(v, lvl) ==
    IF v[1] = "null" THEN <<"n", "u", "l", "l">>
    ELSE IF v[1] = "true" THEN <<"t", "r", "u", "e">>
    ELSE IF v[1] = "false" THEN <<"f", "a", "l", "s", "e">>
    ELSE IF v[1] = "num" THEN v[2]
    ELSE IF v[1] = "str" THEN <<"\"">> \o v[2] \o <<"\"">>
    ELSE IF v[1] = "arr" THEN
        IF v[2] = <<>> THEN <<"[", "]">>
        ELSE <<"[">> \o DumpItems(v[2], lvl + 1, TRUE)
             \o <<"\n">> \o Spaces(2 * lvl) \o <<"]">>
    ELSE
        IF v[2] = <<>> THEN <<"{", "}">>
        ELSE <<"{">> \o DumpMembers(v[2], lvl + 1, TRUE)
             \o <<"\n">> \o Spaces(2 * lvl) \o <<"}">>

json_dumps(v) == Dumps(v, 0)

----------------------------------------------------------------------------
(* The file system the run starts from.  A file name is a sequence of      *)
(* characters; Ascii lists the characters of names in code-point order.    *)

Ascii == <<".", "0", "1", "A", "B", "C", "D", "S", "T", "V", "X",
           "a", "b", "c", "d", "l", "m", "n", "o", "p", "s", "t", "u", "v",
           "x">>

CharCode(c) == CHOOSE i \in 1..Len(Ascii) : Ascii[i] = c

\* str.lower() of one character
LowerChar(c) ==
    CASE c = "A" -> "a" [] c = "B" -> "b" [] c = "C" -> "c" [] c = "D" -> "d"
      [] c = "S" -> "s" [] c = "T" -> "t" [] c = "V" -> "v" [] c = "X" -> "x"
      [] OTHER -> c

Lower(s) == [i \in 1..Len(s) |-> LowerChar(s[i])]

\* a < b for str, by code point
RECURSIVE StrLess(_, _)
StrLess(a, b) ==
    IF b = <<>> THEN FALSE
    ELSE IF a = <<>> THEN TRUE
    ELSE IF Head(a) = Head(b) THEN StrLess(Tail(a), Tail(b))
    ELSE CharCode(Head(a)) < CharCode(Head(b))

\* PurePath.suffix: from the last dot, unless that dot starts or ends the name
Suffix(name) ==
    LET dots == {i \in 1..Len(name) : name[i] = "."} IN
    IF dots = {} THEN <<>>
    ELSE LET i == CHOOSE d \in dots : \A e \in dots : e <= d IN
         IF 1 < i /\ i < Len(name) THEN SubSeq(name, i, Len(name)) ELSE <<>>

\* a directory entry.  bytes: the content of a text file, "<bad>" an invalid
\* UTF-8 byte; rows: the reprs of the rows csv.reader yields, badRow the row at which it
\* raises csv.Error (0: none); container: the file is a readable zip package;
\* sheets and slides: the content of a workbook or a presentation
File(name) ==
    [name |-> name, isdir |-> FALSE, readable |-> TRUE, bytes |-> <<>>,
     rows |-> <<>>, badRow |-> 0, container |-> TRUE, sheets |-> <<>>,
     slides |-> <<>>]

Sheet(title, nrows, ncols) == [title |-> title, nrows |-> nrows, ncols |-> ncols]

\* a shape with a text attribute, and one without (a picture)
TextShape(t) == [hasText |-> TRUE, text |-> t]
Picture == [hasText |-> FALSE, text |-> <<>>]

Slide(shapes, notes, notesRaise) ==
    [shapes |-> shapes, notes |-> notes, notesRaise |-> notesRaise]

----------------------------------------------------------------------------
(* Ingestion.  A result is [ok, text, exc]: the returned preview, or the   *)
(* exception that leaves the function.                                     *)

Returns(t) == [ok |-> TRUE, text |-> t, exc |-> "none"]
Raises(e) == [ok |-> FALSE, text |-> <<>>, exc |-> e]

\* decoding with errors="ignore" drops the invalid bytes
DecodeIgnore(bytes) == SelectSeq(bytes, LAMBDA b : b # "<bad>")

\* read_text(path) of a file that can be opened
read_text(bytes) == DecodeIgnore(bytes)

ingest_txt_md(f) ==
    IF ~f.readable THEN Raises("PermissionError")
    ELSE Returns(DecodeIgnore(f.bytes))

\* the preview limit of ingest_csv
CsvPreviewRows == 30

\* CsvLoop that breaks one row late (i > 30)
RECURSIVE CsvLoop_BreakLate(_, _, _)
CsvLoop_BreakLate(f, i, rows) ==
    IF i >= Len(f.rows) THEN Returns(rows)
    ELSE IF f.badRow = i + 1 THEN Raises("csv.Error")
    ELSE IF i > CsvPreviewRows THEN Returns(rows)
    ELSE CsvLoop_BreakLate(f, i + 1, Append(rows, f.rows[i + 1]))

\* the loop of ingest_csv about to fetch the row of index i (from 0)
RECURSIVE CsvLoop(_, _, _)
CsvLoop(f, i, rows) ==
    IF i >= Len(f.rows) THEN Returns(rows)
    ELSE IF f.badRow = i + 1 THEN Raises("csv.Error")
    ELSE IF i >= CsvPreviewRows THEN Returns(rows)
    ELSE CsvLoop(f, i + 1, Append(rows, f.rows[i + 1]))

\* repr of a list whose items have the given reprs
ReprList(items) == <<"[">> \o Join(<<",", " ">>, items) \o <<"]">>

ingest_csv(f) ==
    IF ~f.readable THEN Raises("PermissionError")
    ELSE LET r == CsvLoop(f, 0, <<>>) IN
         IF ~r.ok THEN r
         ELSE Returns(<<"CSV PREVIEW (first 30 rows):", "\n">>
                      \o ReprList(r.text))

\* the sheets, rows and columns ingest_xlsx previews
XlsxSheets == 3
XlsxRows == 15
XlsxCols == 10

DecimalDigit(i) == <<"0", "1", "2", "3", "4", "5", "6", "7", "8", "9">>[i + 1]

\* a number below 100 in two decimal digits
TwoDigits(n) == <<DecimalDigit(n \div 10), DecimalDigit(n % 10)>>

\* sheet.cell(row=r, column=c).value: the value stored at (r, c), None
\* outside the used range
CellValue(sheet, r, c) ==
    IF r <= sheet.nrows /\ c <= sheet.ncols
    THEN <<"R">> \o TwoDigits(r) \o <<"C">> \o TwoDigits(c)
    ELSE <<"None">>

\* the preview grid of one sheet
XlsxPreview(sheet) ==
    [r \in 1..XlsxRows |-> [c \in 1..XlsxCols |-> CellValue(sheet, r, c)]]

XlsxParts(sheet) ==
    LET preview == XlsxPreview(sheet) IN
    << <<"Sheet:", " ">> \o sheet.title,
       <<"Top-left preview (15x10):", "\n">>
       \o ReprList([r \in 1..Len(preview) |->
             ReprList([c \in 1..Len(preview[r]) |-> preview[r][c]])]) >>

RECURSIVE Concat(_)
Concat(lists) ==
    IF lists = <<>> THEN <<>> ELSE Head(lists) \o Concat(Tail(lists))

\* FirstSheets without the slice: every sheet of the workbook
FirstSheets_All(sheets) == sheets

\* wb.worksheets[:3]
FirstSheets(sheets) ==
    SubSeq(sheets, 1, IF Len(sheets) < XlsxSheets THEN Len(sheets) ELSE XlsxSheets)

ingest_xlsx(f, installed) ==
    IF "openpyxl" \notin installed
    THEN Returns(<<"XLSX provided but openpyxl is not installed.">>)
    ELSE IF ~f.readable THEN Raises("PermissionError")
    ELSE IF ~f.container THEN Raises("InvalidFileException")
    ELSE LET used == FirstSheets(f.sheets) IN
         Returns(Join(<<"\n">>,
                      Concat([k \in 1..Len(used) |-> XlsxParts(used[k])])))

\* the stripped texts of the shapes of a slide that have text
ShapeTexts(shapes) ==
    LET withText == SelectSeq(shapes,
                        LAMBDA sh : sh.hasText /\ StrTruthy(sh.text)
                                    /\ StrTruthy(Strip(sh.text))) IN
    [k \in 1..Len(withText) |-> Strip(withText[k].text)]

\* the speaker notes of a slide; an exception while reading them is swallowed
NotesText(slide) == IF slide.notesRaise THEN <<>> ELSE Strip(slide.notes)

SlideParts(slide, i) ==
    LET texts == ShapeTexts(slide.shapes)
        notes_text == NotesText(slide) IN
    << <<"--- Slide", " ", DecimalDigit(i), " ", "---">> >>
    \o (IF texts # <<>>
        THEN << <<"SLIDE TEXT:", "\n">> \o Join(<<"\n">>, texts) >>
        ELSE << <<"SLIDE TEXT: (none detected)">> >>)
    \o (IF StrTruthy(notes_text)
        THEN << <<"SPEAKER NOTES:", "\n">> \o notes_text >>
        ELSE << <<"SPEAKER NOTES: (none)">> >>)
    \o (IF texts = <<>> /\ ~StrTruthy(notes_text)
        THEN << <<"NOTE: This slide may be mostly images/screenshots.">> >>
        ELSE <<>>)

ingest_pptx_text_only(f, installed) ==
    IF "pptx" \notin installed
    THEN Returns(<<"PPTX provided but python-pptx is not installed.">>)
    ELSE IF ~f.readable THEN Raises("PermissionError")
    ELSE IF ~f.container THEN Raises("PackageNotFoundError")
    ELSE Returns(Join(<<"\n">>,
             Concat([k \in 1..Len(f.slides) |-> SlideParts(f.slides[k], k)])))

----------------------------------------------------------------------------
(* build_context_bundle                                                    *)

\* sorted(): insertion of one entry into a list sorted by name
\* InsertSorted with the comparison turned round: a descending sort
RECURSIVE InsertSorted_Descending(_, _)
InsertSorted_Descending(f, sorted) ==
    IF sorted = <<>> THEN <<f>>
    ELSE IF StrLess(Head(sorted).name, f.name) THEN <<f>> \o sorted
    ELSE <<Head(sorted)>> \o InsertSorted_Descending(f, Tail(sorted))

RECURSIVE InsertSorted(_, _)
InsertSorted(f, sorted) ==
    IF sorted = <<>> THEN <<f>>
    ELSE IF StrLess(f.name, Head(sorted).name) THEN <<f>> \o sorted
    ELSE <<Head(sorted)>> \o InsertSorted(f, Tail(sorted))

\* SortedByName without sorted(): the entries in the order glob lists them
SortedByName_ListingOrder(entries) == entries

RECURSIVE SortedByName(_)
SortedByName(entries) ==
    IF entries = <<>> THEN <<>>
    ELSE InsertSorted(Head(entries), SortedByName(Tail(entries)))

\* IngestFile that reads a file of any other type as text
IngestFile_ReadsUnknown(f, installed) ==
    LET ext == Lower(Suffix(f.name)) IN
    IF ext = <<".", "c", "s", "v">> THEN ingest_csv(f)
    ELSE IF ext = <<".", "x", "l", "s", "x">> THEN ingest_xlsx(f, installed)
    ELSE IF ext = <<".", "p", "p", "t", "x">>
         THEN ingest_pptx_text_only(f, installed)
    ELSE ingest_txt_md(f)

\* the extension dispatch of build_context_bundle for one file
IngestFile(f, installed) ==
    LET ext == Lower(Suffix(f.name)) IN
    IF ext \in {<<".", "t", "x", "t">>, <<".", "m", "d">>} THEN ingest_txt_md(f)
    ELSE IF ext = <<".", "c", "s", "v">> THEN ingest_csv(f)
    ELSE IF ext = <<".", "x", "l", "s", "x">> THEN ingest_xlsx(f, installed)
    ELSE IF ext = <<".", "p", "p", "t", "x">>
         THEN ingest_pptx_text_only(f, installed)
    ELSE Returns(<<"(Skipped unsupported file type:", " ">> \o ext \o <<")">>)

FileHeader(f) ==
    <<"\n", "\n", "=====", " ", "FILE:", " ">> \o f.name \o <<" ", "=====", "\n">>

\* the loop of build_context_bundle over the sorted entries
RECURSIVE BundleLoop(_, _, _)
BundleLoop(entries, installed, chunks) ==
    IF entries = <<>> THEN Returns(Strip(Join(<<"\n">>, chunks)))
    ELSE LET f == Head(entries) IN
         IF f.isdir THEN BundleLoop(Tail(entries), installed, chunks)
         ELSE LET body == IngestFile(f, installed) IN
              IF ~body.ok THEN body
              ELSE BundleLoop(Tail(entries), installed,
                              Append(chunks, FileHeader(f) \o body.text))

build_context_bundle(dir, installed) ==
    IF ~dir.exists THEN Returns(<<>>)
    ELSE BundleLoop(SortedByName(dir.entries), installed, <<>>)

\* the same directory listed in every possible order
ListingOrders(dir) ==
    {[dir EXCEPT !.entries = [k \in DOMAIN dir.entries |-> dir.entries[p[k]]]] :
        p \in Permutations(DOMAIN dir.entries)}

----------------------------------------------------------------------------
(* The inputs the model draws                                              *)

\* the context directories a run may find
NoDir == [exists |-> FALSE, entries |-> <<>>]
EmptyDir == [exists |-> TRUE, entries |-> <<>>]
SubDirOnly ==
    [exists |-> TRUE,
     entries |-> << [File(<<"s", "u", "b">>) EXCEPT !.isdir = TRUE] >>]
CsvAndTxt ==
    [exists |-> TRUE,
     entries |-> << [File(<<"b", ".", "c", "s", "v">>)
                       EXCEPT !.rows = << <<"r1">>, <<"r2">> >>],
                    [File(<<"a", ".", "t", "x", "t">>)
                       EXCEPT !.bytes = <<"budget", "<bad>", "\n">>] >>]
EmptyTxt == [exists |-> TRUE, entries |-> << File(<<"a", ".", "t", "x", "t">>) >>]
Docx == [exists |-> TRUE, entries |-> << File(<<"d", ".", "d", "o", "c", "x">>) >>]
UnreadableMd ==
    [exists |-> TRUE,
     entries |-> << [File(<<"n", ".", "m", "d">>) EXCEPT !.readable = FALSE] >>]
BadCsv ==
    [exists |-> TRUE,
     entries |-> << [File(<<"B", ".", "C", "S", "V">>)
                       EXCEPT !.rows = << <<"r1">>, <<"r2">> >>, !.badRow = 2] >>]
GoodXlsx ==
    [exists |-> TRUE,
     entries |-> << [File(<<"s", ".", "x", "l", "s", "x">>)
                       EXCEPT !.sheets = << Sheet(<<"S1">>, 2, 1) >>] >>]
BadXlsx ==
    [exists |-> TRUE,
     entries |-> << [File(<<"s", ".", "x", "l", "s", "x">>)
                       EXCEPT !.container = FALSE],
                    File(<<"a", ".", "t", "x", "t">>) >>]
GoodPptx ==
    [exists |-> TRUE,
     entries |-> << [File(<<"p", ".", "p", "p", "t", "x">>)
                       EXCEPT !.slides =
                         << Slide(<<TextShape(<<" ", "title">>), Picture>>,
                                  <<"say", "\n">>, FALSE),
                            Slide(<<Picture>>, <<>>, TRUE) >>] >>]
BadPptx ==
    [exists |-> TRUE,
     entries |-> << [File(<<"p", ".", "p", "p", "t", "x">>)
                       EXCEPT !.container = FALSE] >>]

\* the row count of the longest CSV file and the shape of the largest
\* workbook the model draws: each one more than what a preview keeps
MaxCsvRows == 31
MaxSheets == 4
MaxSheetRows == 16
MaxSheetCols == 11

\* a well-formed CSV file of n rows
CsvRow(k) == <<"r">> \o TwoDigits(k)
CsvFile(name, n) == [File(name) EXCEPT !.rows = [k \in 1..n |-> CsvRow(k)]]

\* CSV files longer than and as long as the preview limit, and one of no row
CsvSizes ==
    [exists |-> TRUE,
     entries |-> << CsvFile(<<"d", ".", "c", "s", "v">>, MaxCsvRows),
                    CsvFile(<<"c", ".", "c", "s", "v">>, CsvPreviewRows) >>]
EmptyCsv ==
    [exists |-> TRUE, entries |-> << CsvFile(<<"a", ".", "c", "s", "v">>, 0) >>]

\* a workbook with more sheets than are previewed, the first one larger than
\* the preview grid, the second exactly as large
SheetTitle(k) == <<"S", DecimalDigit(k)>>
SheetShape(k) ==
    IF k = 1 THEN Sheet(SheetTitle(k), MaxSheetRows, MaxSheetCols)
    ELSE IF k = 2 THEN Sheet(SheetTitle(k), XlsxRows, XlsxCols)
    ELSE Sheet(SheetTitle(k), k, 1)
BigXlsx ==
    [exists |-> TRUE,
     entries |-> << [File(<<"b", ".", "x", "l", "s", "x">>)
                       EXCEPT !.sheets = [k \in 1..MaxSheets |-> SheetShape(k)]] >>]

\* a subdirectory, and a file of unsupported type that cannot be opened,
\* sorted before but listed after a file that is read
Mixed ==
    [exists |-> TRUE,
     entries |-> << [File(<<"n", ".", "m", "d">>)
                       EXCEPT !.bytes = <<"notes", "\n">>],
                    [File(<<"s", "u", "b">>) EXCEPT !.isdir = TRUE],
                    [File(<<"d", ".", "d", "o", "c", "x">>)
                       EXCEPT !.readable = FALSE, !.container = FALSE] >>]

ContextDirs ==
    {NoDir, EmptyDir, SubDirOnly, CsvAndTxt, EmptyTxt, Docx, UnreadableMd,
     BadCsv, GoodXlsx, BadXlsx, GoodPptx, BadPptx, CsvSizes, EmptyCsv, BigXlsx,
     Mixed}

\* the optional parsing libraries
Libraries == {"openpyxl", "pptx"}

\* the paths of the run
PromptPaths ==
    {"agents/chief_of_staff.txt", "agents/prd_writer.txt",
     "agents/cfo_critic.txt", "agents/coo_jira.txt", "agents/librarian.txt"}
OutPaths ==
    {"out/context.md", "out/notes_raw.txt", "out/notes.json", "out/prd.md",
     "out/roi_review.md", "out/jira_plan.json"}
TranscriptPaths == {"transcripts/meeting1.txt", "out/notes_raw.txt"}
Paths == PromptPaths \cup OutPaths \cup TranscriptPaths

\* sys.argv[1], or NoArg when the command line has no argument
NoArg == "<no argument>"

\* what a file of out/ left by an earlier run holds
StaleText == <<"old", "\n">>

Absent == [present |-> FALSE, text |-> <<>>]
Present(t) == [present |-> TRUE, text |-> t]

\* the content of an instruction file
PromptText(path) == <<path>>

\* the texts the external agent may return to a stage
LibrarianReplies == {<<>>, <<" ">>, <<"context", " ", "pack">>}
ChiefReplies ==
    { <<"meeting", " ", "notes">>,
      <<"{", "\"", "a", "\"", ":", "1", "}">>,
      <<"7">>,
      <<"{", "}">>,
      <<" ", "[", " ", "]">>,
      <<"n", "u", "l", "l", "\n">>,
      <<"[", "1", ",">> }
AgentReplies(prompt) ==
    IF prompt = PromptText("agents/librarian.txt") THEN LibrarianReplies
    ELSE IF prompt = PromptText("agents/chief_of_staff.txt") THEN ChiefReplies
    ELSE IF prompt = PromptText("agents/prd_writer.txt") THEN {<<"PRD">>}
    ELSE IF prompt = PromptText("agents/cfo_critic.txt") THEN {<<"ROI">>}
    ELSE {<<"[", "]">>}

----------------------------------------------------------------------------
(* State                                                                   *)

VARIABLES
    argv,             \* sys.argv[1] or NoArg
    fs,               \* path -> [present, text]: the files of the run
    out_dir,          \* the directory out/ exists
    context_dir,      \* the directory context/
    installed,        \* the optional libraries that can be imported
    pc,               \* the position of main
    exit_status,      \* the status of the process once pc = "exited"
    error,            \* what ended the run, "none" while it runs
    transcript, context_bundle, context_pack_md, combined_input,
    notes_text, notes_json, prd_input, prd_md, roi_review, jira_json_text,
    events,           \* the agent invocations and file writes so far, in order
    mocked,           \* the agent is a test double: a fixed text for each
                      \* (instruction, payload), never an exception
    run,              \* the number of the run in progress, from 1
    history,          \* the runs that ended before this one: the files each
                      \* found and its events
    fs0               \* the files as the run in progress found them

env == <<argv, context_dir, installed, mocked, run, history, fs0>>
locals == <<transcript, context_bundle, context_pack_md, combined_input,
            notes_text, notes_json, prd_input, prd_md, roi_review,
            jira_json_text>>
vars == <<env, fs, out_dir, pc, exit_status, error, locals, events>>

\* Python None, which is also what json.loads("null") returns
None == <<"null">>

\* the state main starts in, whatever the agent is
InitRun ==
    /\ argv \in TranscriptPaths \cup {NoArg}
    /\ \E prompts \in SUBSET PromptPaths, meeting \in BOOLEAN, stale \in BOOLEAN :
         /\ out_dir = stale
         /\ fs = [p \in Paths |->
                    IF p \in PromptPaths
                    THEN IF p \in prompts THEN Present(PromptText(p)) ELSE Absent
                    ELSE IF p \in OutPaths
                    THEN IF stale THEN Present(StaleText) ELSE Absent
                    ELSE IF meeting THEN Present(<<"we", " ", "met", "<bad>">>)
                    ELSE Absent]
    /\ context_dir \in ContextDirs
    /\ installed \in SUBSET Libraries
    /\ pc = "start"
    /\ exit_status = 0
    /\ error = "none"
    /\ transcript = <<>>
    /\ context_bundle = <<>>
    /\ context_pack_md = <<>>
    /\ combined_input = <<>>
    /\ notes_text = <<>>
    /\ notes_json = None
    /\ prd_input = <<>>
    /\ prd_md = <<>>
    /\ roi_review = <<>>
    /\ jira_json_text = <<>>
    /\ events = <<>>
    /\ run = 1
    /\ history = <<>>
    /\ fs0 = fs

\* a run against the live agent
Init == InitRun /\ mocked = FALSE

\* a run against the test double
InitMock == InitRun /\ mocked = TRUE

----------------------------------------------------------------------------
(* Building blocks of the actions                                          *)

\* Exit1 that reports the failure and returns from main normally
Exit1_StatusZero(err) ==
    /\ pc' = "exited"
    /\ exit_status' = 0
    /\ error' = err

\* the process ends with status 1: SystemExit(1) or an uncaught exception
Exit1(err) ==
    /\ pc' = "exited"
    /\ exit_status' = 1
    /\ error' = err

Goto(label) ==
    /\ pc' = label
    /\ UNCHANGED <<exit_status, error>>

\* read_prompt(path)
read_prompt(path) ==
    IF fs[path].present THEN Returns(fs[path].text)
    ELSE Raises("FileNotFoundError")

\* what the test double has answered so far, in this run and in earlier ones
Answered ==
    {e \in {events[k] : k \in DOMAIN events}
            \cup UNION {{history[h].events[k] : k \in DOMAIN history[h].events} :
                          h \in DOMAIN history} :
        e.kind = "call" /\ e.ok}

\* call_agent(prompt, user_input): the texts it may return, or the exception
\* of the client; the test double returns what it returned before for the
\* same instruction and payload
call_agent(prompt, user_input) ==
    IF mocked
    THEN LET known == {e.reply : e \in {a \in Answered :
                                          a.what = prompt /\ a.text = user_input}} IN
         {Returns(t) : t \in (IF known # {} THEN known ELSE AgentReplies(prompt))}
    ELSE {Returns(t) : t \in AgentReplies(prompt)} \cup {Raises("APIError")}

\* the event of an agent invocation: its instruction, its payload, and the
\* text it returned unless it raised
Invocation(prompt, user_input, r) ==
    [kind |-> "call", what |-> prompt, text |-> user_input, ok |-> r.ok,
     reply |-> r.text]

\* the event of a file write
FileWrite(path, text) ==
    [kind |-> "write", what |-> <<path>>, text |-> text, ok |-> TRUE,
     reply |-> <<>>]

\* (Path("out") / name).write_text(text)
WriteText(path, text) ==
    /\ fs' = [fs EXCEPT ![path] = Present(text)]
    /\ events' = Append(events, FileWrite(path, text))

----------------------------------------------------------------------------
(* main(), one action per step                                             *)

\* CheckArguments without the test that the transcript exists
CheckArguments_NoExistsCheck ==
    /\ pc = "start"
    /\ IF argv = NoArg
       THEN Exit1("usage") /\ UNCHANGED out_dir
       ELSE Goto("load_prompts") /\ out_dir' = TRUE
    /\ UNCHANGED <<env, fs, locals, events>>

\* lines 135-144: the argument checks and the creation of out/
CheckArguments ==
    /\ pc = "start"
    /\ IF argv = NoArg
       THEN Exit1("usage") /\ UNCHANGED out_dir
       ELSE IF ~fs[argv].present
       THEN Exit1("transcript not found") /\ UNCHANGED out_dir
       ELSE Goto("load_prompts") /\ out_dir' = TRUE
    /\ UNCHANGED <<env, fs, locals, events>>

\* the instruction files main reads before anything else
EagerPrompts ==
    <<"agents/chief_of_staff.txt", "agents/prd_writer.txt",
      "agents/cfo_critic.txt", "agents/coo_jira.txt">>

\* LoadPrompts reading the Librarian file with the other four
LoadPrompts_WithLibrarian ==
    /\ pc = "load_prompts"
    /\ IF /\ \A k \in 1..Len(EagerPrompts) : read_prompt(EagerPrompts[k]).ok
          /\ read_prompt("agents/librarian.txt").ok
       THEN Goto("read_inputs")
       ELSE Exit1("FileNotFoundError")
    /\ UNCHANGED <<env, fs, out_dir, locals, events>>

\* lines 147-150: the four instruction files of stages 1-4
LoadPrompts ==
    /\ pc = "load_prompts"
    /\ IF \A k \in 1..Len(EagerPrompts) : read_prompt(EagerPrompts[k]).ok
       THEN Goto("read_inputs")
       ELSE Exit1("FileNotFoundError")
    /\ UNCHANGED <<env, fs, out_dir, locals, events>>

\* lines 153-158: the transcript and the context bundle
ReadInputs ==
    /\ pc = "read_inputs"
    /\ LET b == build_context_bundle(context_dir, installed) IN
       IF ~b.ok
       THEN /\ Exit1(b.exc)
            /\ transcript' = read_text(fs[argv].text)
            /\ UNCHANGED <<context_bundle, context_pack_md>>
       ELSE /\ Goto("librarian_1")
            /\ transcript' = read_text(fs[argv].text)
            /\ context_bundle' = b.text
            /\ context_pack_md' = <<>>
    /\ UNCHANGED <<env, fs, out_dir, combined_input, notes_text, notes_json,
                   prd_input, prd_md, roi_review, jira_json_text, events>>

\* lines 159-161 and 164-165: the first Librarian invocation, or its skip
LibrarianFirstCall ==
    /\ pc = "librarian_1"
    /\ IF StrTruthy(Strip(context_bundle))
       THEN LET p == read_prompt("agents/librarian.txt") IN
            IF ~p.ok
            THEN Exit1(p.exc) /\ UNCHANGED <<context_pack_md, events>>
            ELSE \E r \in call_agent(p.text, context_bundle) :
                   /\ events' = Append(events, Invocation(p.text, context_bundle, r))
                   /\ IF r.ok
                      THEN Goto("librarian_1_write") /\ context_pack_md' = r.text
                      ELSE Exit1(r.exc) /\ UNCHANGED context_pack_md
       ELSE Goto("combine_1") /\ UNCHANGED <<context_pack_md, events>>
    /\ UNCHANGED <<env, fs, out_dir, transcript, context_bundle, combined_input,
                   notes_text, notes_json, prd_input, prd_md, roi_review,
                   jira_json_text>>

\* line 162
LibrarianFirstWrite ==
    /\ pc = "librarian_1_write"
    /\ WriteText("out/context.md", context_pack_md)
    /\ Goto("combine_1")
    /\ UNCHANGED <<env, out_dir, locals>>

\* the transcript followed by the context pack under its delimiter
WithContextPack(t, pack) ==
    t \o <<"\n", "\n", "=====", " ", "CONTEXT", " ", "PACK", " ", "=====", "\n">>
      \o pack

\* lines 168-173
CombineFirst ==
    /\ pc = "combine_1"
    /\ combined_input' =
         IF StrTruthy(Strip(context_pack_md))
         THEN WithContextPack(transcript, context_pack_md)
         ELSE transcript
    /\ Goto("librarian_2")
    /\ UNCHANGED <<env, fs, out_dir, transcript, context_bundle, context_pack_md,
                   notes_text, notes_json, prd_input, prd_md, roi_review,
                   jira_json_text, events>>

\* LibrarianSecondCall without the test of the bundle
LibrarianSecondCall_Unconditional ==
    /\ pc = "librarian_2"
    /\ LET p == read_prompt("agents/librarian.txt") IN
       IF ~p.ok
       THEN Exit1(p.exc) /\ UNCHANGED <<context_pack_md, events>>
       ELSE \E r \in call_agent(p.text, context_bundle) :
              /\ events' = Append(events, Invocation(p.text, context_bundle, r))
              /\ IF r.ok
                 THEN Goto("librarian_2_write") /\ context_pack_md' = r.text
                 ELSE Exit1(r.exc) /\ context_pack_md' = <<>>
    /\ UNCHANGED <<env, fs, out_dir, transcript, context_bundle, combined_input,
                   notes_text, notes_json, prd_input, prd_md, roi_review,
                   jira_json_text>>

\* lines 175-178: the second Librarian invocation, or its skip
LibrarianSecondCall ==
    /\ pc = "librarian_2"
    /\ IF StrTruthy(context_bundle)
       THEN LET p == read_prompt("agents/librarian.txt") IN
            IF ~p.ok
            THEN Exit1(p.exc) /\ UNCHANGED <<context_pack_md, events>>
            ELSE \E r \in call_agent(p.text, context_bundle) :
                   /\ events' = Append(events, Invocation(p.text, context_bundle, r))
                   /\ IF r.ok
                      THEN Goto("librarian_2_write") /\ context_pack_md' = r.text
                      ELSE Exit1(r.exc) /\ context_pack_md' = <<>>
       ELSE Goto("combine_2") /\ context_pack_md' = <<>> /\ UNCHANGED events
    /\ UNCHANGED <<env, fs, out_dir, transcript, context_bundle, combined_input,
                   notes_text, notes_json, prd_input, prd_md, roi_review,
                   jira_json_text>>

\* line 179
LibrarianSecondWrite ==
    /\ pc = "librarian_2_write"
    /\ WriteText("out/context.md", context_pack_md)
    /\ Goto("combine_2")
    /\ UNCHANGED <<env, out_dir, locals>>

\* lines 182-184
CombineSecond ==
    /\ pc = "combine_2"
    /\ combined_input' =
         IF StrTruthy(context_pack_md)
         THEN WithContextPack(transcript, context_pack_md)
         ELSE transcript
    /\ Goto("chief")
    /\ UNCHANGED <<env, fs, out_dir, transcript, context_bundle, context_pack_md,
                   notes_text, notes_json, prd_input, prd_md, roi_review,
                   jira_json_text, events>>

\* ChiefCall invoking the agent again after a failure
ChiefCall_Retry ==
    /\ pc = "chief"
    /\ LET p == fs["agents/chief_of_staff.txt"].text IN
       \E r \in call_agent(p, combined_input) :
         /\ events' = Append(events, Invocation(p, combined_input, r))
         /\ IF r.ok
            THEN Goto("chief_write") /\ notes_text' = r.text
            ELSE Goto("chief") /\ UNCHANGED notes_text
         /\ Len(events) < 4
    /\ UNCHANGED <<env, fs, out_dir, transcript, context_bundle, context_pack_md,
                   combined_input, notes_json, prd_input, prd_md, roi_review,
                   jira_json_text>>

\* line 187
ChiefCall ==
    /\ pc = "chief"
    /\ LET p == fs["agents/chief_of_staff.txt"].text IN
       \E r \in call_agent(p, combined_input) :
         /\ events' = Append(events, Invocation(p, combined_input, r))
         /\ IF r.ok
            THEN Goto("chief_write") /\ notes_text' = r.text
            ELSE Exit1(r.exc) /\ UNCHANGED notes_text
    /\ UNCHANGED <<env, fs, out_dir, transcript, context_bundle, context_pack_md,
                   combined_input, notes_json, prd_input, prd_md, roi_review,
                   jira_json_text>>

\* ChiefWrite that does not persist the raw notes
ChiefWrite_Skipped ==
    /\ pc = "chief_write"
    /\ Goto("parse_notes")
    /\ UNCHANGED <<env, fs, out_dir, locals, events>>

\* line 188
ChiefWrite ==
    /\ pc = "chief_write"
    /\ WriteText("out/notes_raw.txt", notes_text)
    /\ Goto("parse_notes")
    /\ UNCHANGED <<env, out_dir, locals>>

\* ParseNotes letting the JSONDecodeError leave main
ParseNotes_Fatal ==
    /\ pc = "parse_notes"
    /\ LET r == json_loads(notes_text) IN
       IF r.ok
       THEN /\ notes_json' = r.val
            /\ WriteText("out/notes.json", json_dumps(r.val))
            /\ Goto("prd")
       ELSE /\ notes_json' = None
            /\ UNCHANGED <<fs, events>>
            /\ Exit1("JSONDecodeError")
    /\ UNCHANGED <<env, out_dir, transcript, context_bundle, context_pack_md,
                   combined_input, notes_text, prd_input, prd_md, roi_review,
                   jira_json_text>>

\* ParseNotes writing notes.json only for a truthy record
ParseNotes_WriteIfTruthy ==
    /\ pc = "parse_notes"
    /\ LET r == json_loads(notes_text) IN
       IF r.ok /\ JsonTruthy(r.val)
       THEN /\ notes_json' = r.val
            /\ WriteText("out/notes.json", json_dumps(r.val))
       ELSE /\ notes_json' = IF r.ok THEN r.val ELSE None
            /\ UNCHANGED <<fs, events>>
    /\ Goto("prd")
    /\ UNCHANGED <<env, out_dir, transcript, context_bundle, context_pack_md,
                   combined_input, notes_text, prd_input, prd_md, roi_review,
                   jira_json_text>>

\* lines 190-195: the best-effort parse of the notes
ParseNotes ==
    /\ pc = "parse_notes"
    /\ LET r == json_loads(notes_text) IN
       IF r.ok
       THEN /\ notes_json' = r.val
            /\ WriteText("out/notes.json", json_dumps(r.val))
       ELSE /\ notes_json' = None
            /\ UNCHANGED <<fs, events>>
    /\ Goto("prd")
    /\ UNCHANGED <<env, out_dir, transcript, context_bundle, context_pack_md,
                   combined_input, notes_text, prd_input, prd_md, roi_review,
                   jira_json_text>>

\* line 198: the payload of the PRD Writer
PrdInput(json, text) == IF JsonTruthy(json) THEN json_dumps(json) ELSE text

\* lines 198-199
PrdCall ==
    /\ pc = "prd"
    /\ prd_input' = PrdInput(notes_json, notes_text)
    /\ LET p == fs["agents/prd_writer.txt"].text IN
       \E r \in call_agent(p, prd_input') :
         /\ events' = Append(events, Invocation(p, prd_input', r))
         /\ IF r.ok
            THEN Goto("prd_write") /\ prd_md' = r.text
            ELSE Exit1(r.exc) /\ UNCHANGED prd_md
    /\ UNCHANGED <<env, fs, out_dir, transcript, context_bundle, context_pack_md,
                   combined_input, notes_text, notes_json, roi_review,
                   jira_json_text>>

\* line 200
PrdWrite ==
    /\ pc = "prd_write"
    /\ WriteText("out/prd.md", prd_md)
    /\ Goto("cfo")
    /\ UNCHANGED <<env, out_dir, locals>>

\* line 203
CfoCall ==
    /\ pc = "cfo"
    /\ LET p == fs["agents/cfo_critic.txt"].text IN
       \E r \in call_agent(p, prd_md) :
         /\ events' = Append(events, Invocation(p, prd_md, r))
         /\ IF r.ok
            THEN Goto("cfo_write") /\ roi_review' = r.text
            ELSE Exit1(r.exc) /\ UNCHANGED roi_review
    /\ UNCHANGED <<env, fs, out_dir, transcript, context_bundle, context_pack_md,
                   combined_input, notes_text, notes_json, prd_input, prd_md,
                   jira_json_text>>

\* CfoWrite that does not persist the review
CfoWrite_Skipped ==
    /\ pc = "cfo_write"
    /\ Goto("coo")
    /\ UNCHANGED <<env, fs, out_dir, locals, events>>

\* line 204
CfoWrite ==
    /\ pc = "cfo_write"
    /\ WriteText("out/roi_review.md", roi_review)
    /\ Goto("coo")
    /\ UNCHANGED <<env, out_dir, locals>>

\* line 207
CooCall ==
    /\ pc = "coo"
    /\ LET p == fs["agents/coo_jira.txt"].text IN
       \E r \in call_agent(p, prd_md) :
         /\ events' = Append(events, Invocation(p, prd_md, r))
         /\ IF r.ok
            THEN Goto("coo_write") /\ jira_json_text' = r.text
            ELSE Exit1(r.exc) /\ UNCHANGED jira_json_text
    /\ UNCHANGED <<env, fs, out_dir, transcript, context_bundle, context_pack_md,
                   combined_input, notes_text, notes_json, prd_input, prd_md,
                   roi_review>>

\* line 208
CooWrite ==
    /\ pc = "coo_write"
    /\ WriteText("out/jira_plan.json", jira_json_text)
    /\ Goto("report")
    /\ UNCHANGED <<env, out_dir, locals>>

\* lines 210-221: the report, and the return of main
Finish ==
    /\ pc = "report"
    /\ pc' = "exited"
    /\ exit_status' = 0
    /\ UNCHANGED <<env, fs, out_dir, error, locals, events>>

Next ==
    \/ CheckArguments
    \/ LoadPrompts
    \/ ReadInputs
    \/ LibrarianFirstCall
    \/ LibrarianFirstWrite
    \/ CombineFirst
    \/ LibrarianSecondCall
    \/ LibrarianSecondWrite
    \/ CombineSecond
    \/ ChiefCall
    \/ ChiefWrite
    \/ ParseNotes
    \/ PrdCall
    \/ PrdWrite
    \/ CfoCall
    \/ CfoWrite
    \/ CooCall
    \/ CooWrite
    \/ Finish

Spec == Init /\ [][Next]_vars

\* the runs the model lets follow one another
MaxRuns == 2

\* python run.py again with the same argument, over the files the run before
\* left, the context directory listed in any order
Restart ==
    /\ pc = "exited"
    /\ mocked
    /\ run < MaxRuns
    /\ run' = run + 1
    /\ history' = Append(history, [files |-> fs0, events |-> events])
    /\ fs0' = fs
    /\ context_dir' \in ListingOrders(context_dir)
    /\ pc' = "start"
    /\ exit_status' = 0
    /\ error' = "none"
    /\ transcript' = <<>>
    /\ context_bundle' = <<>>
    /\ context_pack_md' = <<>>
    /\ combined_input' = <<>>
    /\ notes_text' = <<>>
    /\ notes_json' = None
    /\ prd_input' = <<>>
    /\ prd_md' = <<>>
    /\ roi_review' = <<>>
    /\ jira_json_text' = <<>>
    /\ events' = <<>>
    /\ UNCHANGED <<argv, installed, mocked, fs, out_dir>>

NextMock == Next \/ Restart

\* runs against the test double
SpecMock == InitMock /\ [][NextMock]_vars

----------------------------------------------------------------------------
(* Vocabulary of the properties                                            *)

\* the instruction file of each stage, 0 Librarian .. 4 COOPlanner
StagePrompt ==
    <<"agents/librarian.txt", "agents/chief_of_staff.txt",
      "agents/prd_writer.txt", "agents/cfo_critic.txt", "agents/coo_jira.txt">>

\* the raw artifact of each stage
StageArtifact ==
    <<"out/context.md", "out/notes_raw.txt", "out/prd.md", "out/roi_review.md",
      "out/jira_plan.json">>

\* the first stage that writes the path
ArtifactStage(path) ==
    IF path = "out/notes.json" THEN 1
    ELSE CHOOSE s \in 0..4 : StageArtifact[s + 1] = path

IsCall(e) == e.kind = "call"
IsWrite(e) == e.kind = "write"

\* the stage an invocation event belongs to
StageOf(e) == CHOOSE s \in 0..4 : e.what = PromptText(StagePrompt[s + 1])

\* the positions in events of the invocations of stage s, of all invocations,
\* and of the writes to a path
CallsOf(s) == {k \in 1..Len(events) : IsCall(events[k]) /\ StageOf(events[k]) = s}
AllCalls == {k \in 1..Len(events) : IsCall(events[k])}
WritesTo(path) ==
    {k \in 1..Len(events) : IsWrite(events[k]) /\ events[k].what = <<path>>}
AllWrites == {k \in 1..Len(events) : IsWrite(events[k])}

Invoked(s) == CallsOf(s) # {}
Written(path) == WritesTo(path) # {}

Exited(status) == pc = "exited" /\ exit_status = status

\* what build_context_bundle gives for the directory of this run
Bundle == build_context_bundle(context_dir, installed)

\* the outcome of the structured parse of the stage-1 text
NotesParse == json_loads(notes_text)

\* the parse step of main is behind the run
ParseDone == pc = "prd" \/ Invoked(2)

----------------------------------------------------------------------------
(* C1: agent invocations follow the stage order Librarian, ChiefOfStaff,   *)
(* PRDWriter, CFOCritic, COOPlanner; an invocation starts only after the   *)
(* artifact of the stage invoked before it has been written; a run that    *)
(* completes has invoked each of stages 1-4.                               *)

C1_StageOrder ==
    \A i, j \in AllCalls : i < j => StageOf(events[i]) <= StageOf(events[j])

C1_ArtifactBeforeNextStage ==
    \A i, j \in AllCalls :
        (i < j /\ ~\E m \in AllCalls : i < m /\ m < j)
        => /\ events[i].ok
           /\ \E w \in WritesTo(StageArtifact[StageOf(events[i]) + 1]) :
                /\ i < w /\ w < j
                /\ events[w].text = events[i].reply

C1_SequentialStages ==
    /\ C1_StageOrder
    /\ C1_ArtifactBeforeNextStage
    /\ Exited(0) => \A s \in 1..4 : Invoked(s)

C1_Witness ==
    /\ Exited(0)
    /\ Invoked(0)
    /\ \A s \in 1..4 : Cardinality(CallsOf(s)) = 1

----------------------------------------------------------------------------
(* C2: each output artifact is written at most once in a run.              *)

C2_WriteOnce == \A p \in OutPaths : Cardinality(WritesTo(p)) <= 1

----------------------------------------------------------------------------
(* C3: the payload of PRDWriter is the parsed record, serialized, whenever *)
(* the stage-1 text parses, falsy values included, and the raw stage-1     *)
(* text otherwise.                                                         *)

C3_PayloadIsParsedRecord ==
    \A k \in CallsOf(2) :
        events[k].text =
            IF NotesParse.ok THEN json_dumps(NotesParse.val) ELSE notes_text

----------------------------------------------------------------------------
(* C4: build_context_bundle never raises: for every directory it returns a *)
(* bundle with a chunk for each file, and no ingestion exception ends the  *)
(* run.                                                                    *)

\* part occurs in text as a contiguous run
Contains(text, part) ==
    \E i \in 0..(Len(text) - Len(part)) :
        SubSeq(text, i + 1, i + Len(part)) = part

IngestionErrors ==
    {"PermissionError", "csv.Error", "InvalidFileException",
     "PackageNotFoundError"}

C4_BundlingNeverAborts ==
    /\ error \notin IngestionErrors
    /\ pc \notin {"start", "load_prompts", "read_inputs", "exited"}
       => /\ Bundle.ok
          /\ context_bundle = Bundle.text
          /\ \A k \in 1..Len(context_dir.entries) :
               ~context_dir.entries[k].isdir
               => Contains(context_bundle,
                           Strip(FileHeader(context_dir.entries[k])))

----------------------------------------------------------------------------
(* C5: notes_raw holds the verbatim stage-1 text before the parse is       *)
(* attempted; a failed parse does not end the run, leaves notes_raw as it  *)
(* is, and a run that completes after it has invoked stages 2, 3 and 4.    *)

C5_RawBeforeParse ==
    pc = "parse_notes"
    => /\ fs["out/notes_raw.txt"] = Present(notes_text)
       /\ \E c \in CallsOf(1) : events[c].ok /\ events[c].reply = notes_text

C5_ParseFailureNotFatal ==
    (ParseDone /\ ~NotesParse.ok)
    => /\ fs["out/notes_raw.txt"] = Present(notes_text)
       /\ \E c \in CallsOf(1) : events[c].ok /\ events[c].reply = notes_text
       /\ Invoked(2) \/ pc = "prd"
       /\ Exited(1) => error = "APIError"
       /\ Exited(0) => \A s \in 2..4 : Invoked(s)

C5_RawNotesSurviveParseFailure ==
    /\ C5_RawBeforeParse
    /\ C5_ParseFailureNotFatal
    /\ (pc = "exited" /\ \E c \in CallsOf(1) : events[c].ok)
       => (exit_status = 0 \/ error = "APIError")

C5_Witness ==
    /\ Exited(0)
    /\ ~NotesParse.ok
    /\ notes_text # <<>>
    /\ fs["out/notes_raw.txt"] = Present(notes_text)
    /\ \A s \in 2..4 : Invoked(s)

----------------------------------------------------------------------------
(* C6: notes_structured is written in a run exactly when the stage-1 text  *)
(* parses; its content is the serialized record.                           *)

C6_StructuredIffParsed ==
    /\ Written("out/notes.json") <=> (ParseDone /\ NotesParse.ok)
    /\ Cardinality(WritesTo("out/notes.json")) <= 1
    /\ \A w \in WritesTo("out/notes.json") :
         events[w].text = json_dumps(NotesParse.val)

C6_Witness ==
    /\ Exited(0)
    /\ NotesParse.ok
    /\ ~JsonTruthy(NotesParse.val)
    /\ Written("out/notes.json")

----------------------------------------------------------------------------
(* C7: for a nonexistent or empty context directory the bundle is the      *)
(* empty string, the Librarian is never invoked and context is never       *)
(* written; the run goes on to stages 1-4.                                 *)

NoContext == ~context_dir.exists \/ context_dir.entries = <<>>

C7_EmptyContextSkipsLibrarian ==
    NoContext
    => /\ Bundle = Returns(<<>>)
       /\ ~Invoked(0)
       /\ ~Written("out/context.md")
       /\ pc \notin {"librarian_1_write", "librarian_2_write"}
       /\ Exited(0) => \A s \in 1..4 : Invoked(s)
       /\ (Exited(1) /\ error \notin {"usage", "transcript not found", "APIError"})
          => \E k \in 1..Len(EagerPrompts) : ~fs[EagerPrompts[k]].present

C7_Witness ==
    /\ NoContext
    /\ context_dir.exists
    /\ Exited(0)
    /\ ~Invoked(0)
    /\ \A s \in 1..4 : Invoked(s)

----------------------------------------------------------------------------
(* C8: a failed agent invocation ends the run at once with status 1: it is *)
(* the last event of the run, and every file written before it holds what  *)
(* its last write put there.                                               *)

\* the last write to the path
LastWrite(path) == CHOOSE w \in WritesTo(path) : \A v \in WritesTo(path) : v <= w

C8_AgentFailureAborts ==
    \A k \in AllCalls :
        ~events[k].ok
        => /\ k = Len(events)
           /\ Exited(1)
           /\ error = "APIError"
           /\ \A p \in OutPaths :
                Written(p) => fs[p] = Present(events[LastWrite(p)].text)

C8_Witness ==
    /\ Exited(1)
    /\ error = "APIError"
    /\ \E k \in CallsOf(3) : ~events[k].ok
    /\ Written("out/prd.md")
    /\ Written("out/notes_raw.txt")

----------------------------------------------------------------------------
(* C9: without a transcript argument, or with a transcript path that does  *)
(* not exist, the process ends with status 1, no agent is invoked and no   *)
(* file is written.                                                        *)

NoTranscript == argv = NoArg \/ ~fs[argv].present

C9_NoTranscriptNoRun ==
    NoTranscript
    => /\ events = <<>>
       /\ pc = "start" \/ Exited(1)
       /\ \A p \in OutPaths : fs[p] \in {Absent, Present(StaleText)}

C9_Witness ==
    /\ argv # NoArg
    /\ ~fs[argv].present
    /\ Exited(1)
    /\ error = "transcript not found"
    /\ events = <<>>

----------------------------------------------------------------------------
(* C10: a missing instruction file of stage s in 1..4 ends the run before  *)
(* stage s is invoked and before any artifact of stage s or later is       *)
(* written; a missing Librarian file ends the run exactly when the bundle  *)
(* is non-empty.                                                           *)

PromptMissing(s) == ~fs[StagePrompt[s + 1]].present

C10_EagerPromptFatal ==
    \A s \in 1..4 :
        PromptMissing(s)
        => /\ ~Exited(0)
           /\ \A t \in s..4 : ~Invoked(t)
           /\ \A w \in AllWrites : ArtifactStage(events[w].what[1]) < s

C10_LibrarianPromptFatalIffBundle ==
    (PromptMissing(0) /\ \A s \in 1..4 : ~PromptMissing(s))
    => /\ (Bundle.ok /\ StrTruthy(Bundle.text)) => ~Exited(0) /\ ~Invoked(1)
       /\ (Exited(1) /\ error = "FileNotFoundError")
          => (Bundle.ok /\ StrTruthy(Bundle.text))
       /\ ~Invoked(0)

C10_MissingInstructionFile ==
    /\ C10_EagerPromptFatal
    /\ C10_LibrarianPromptFatalIffBundle

C10_Witness ==
    /\ PromptMissing(0)
    /\ Bundle = Returns(<<>>)
    /\ Exited(0)
    /\ \A s \in 1..4 : Invoked(s)

----------------------------------------------------------------------------
(* C11: the chunks of the context bundle are in lexicographic order of     *)
(* file name whatever the order in which the directory lists its entries,  *)
(* with exactly one chunk for each direct child that is not a directory    *)
(* and none for a subdirectory.                                            *)

\* the positions of the chunk headers of a bundle, and the k-th of them
HeaderPositions(text) == {i \in 1..Len(text) : text[i] = "FILE:"}
HeaderPosition(text, k) ==
    CHOOSE i \in HeaderPositions(text) :
        Cardinality({j \in HeaderPositions(text) : j < i}) = k - 1

\* the file name a header at position i announces
HeaderName(text, i) ==
    LET end == CHOOSE j \in (i + 2)..Len(text) :
                   /\ text[j] = " "
                   /\ \A m \in (i + 2)..(j - 1) : text[m] # " " IN
    SubSeq(text, i + 2, end - 1)

\* the file names of the chunks of a bundle, in chunk order
ChunkNames(text) ==
    [k \in 1..Cardinality(HeaderPositions(text)) |->
        HeaderName(text, HeaderPosition(text, k))]

\* main has the bundle build_context_bundle returned (line 158)
BundleReturned == pc = "librarian_1"

C11_ChunksInNameOrder ==
    BundleReturned
    => LET names == ChunkNames(context_bundle)
           entries == context_dir.entries IN
       /\ \A i, j \in DOMAIN names :
            i < j => StrLess(names[i], names[j])
       /\ \A k \in DOMAIN entries :
            IF entries[k].isdir
            THEN \A i \in DOMAIN names : names[i] # entries[k].name
            ELSE Cardinality({i \in DOMAIN names :
                                 names[i] = entries[k].name}) = 1
       /\ \A i \in DOMAIN names :
            \E k \in DOMAIN entries : entries[k].name = names[i]
       /\ \A d \in ListingOrders(context_dir) :
            build_context_bundle(d, installed) = Returns(context_bundle)

\* a file, a subdirectory and a second file that sorts before the first
C11_Witness ==
    /\ BundleReturned
    /\ context_dir = Mixed
    /\ context_dir.entries[1].name = <<"n", ".", "m", "d">>
    /\ context_dir.entries[2].isdir
    /\ ChunkNames(context_bundle)
         = << <<"d", ".", "d", "o", "c", "x">>, <<"n", ".", "m", "d">> >>

----------------------------------------------------------------------------
(* C12: against an agent that returns a fixed text for each (instruction,  *)
(* payload), two runs that find the same transcript, the same instruction  *)
(* files and the same context directory write the same set of artifacts,   *)
(* with the same contents.                                                 *)

\* the artifacts a sequence of events wrote, and the final text of each
WrittenIn(ev) == {ev[k].what[1] : k \in {i \in DOMAIN ev : ev[i].kind = "write"}}
LastWriteIn(ev, path) ==
    CHOOSE k \in DOMAIN ev :
        /\ ev[k].kind = "write" /\ ev[k].what[1] = path
        /\ \A j \in DOMAIN ev :
             (ev[j].kind = "write" /\ ev[j].what[1] = path) => j <= k
Artifacts(ev) == [path \in WrittenIn(ev) |-> ev[LastWriteIn(ev, path)].text]

\* the files a run reads
InputPaths == PromptPaths \cup ({argv} \ {NoArg})

\* the run in progress found the input files as the earlier run h found them
SameInputs(h) == \A p \in InputPaths : fs0[p] = history[h].files[p]

C12_SameArtifacts ==
    (mocked /\ pc = "exited")
    => \A h \in DOMAIN history :
         SameInputs(h) => Artifacts(events) = Artifacts(history[h].events)

\* a second complete run with context, over a directory listed in another
\* order than the first run found it in
C12_Witness ==
    /\ mocked /\ run = 2 /\ Exited(0)
    /\ SameInputs(1)
    /\ context_dir \in ListingOrders(Mixed) /\ context_dir # Mixed
    /\ DOMAIN Artifacts(events) = OutPaths
    /\ Artifacts(events) = Artifacts(history[1].events)

----------------------------------------------------------------------------
(* C13: the preview of a CSV file of n rows holds exactly min(n, 30) rows: *)
(* the first min(n, 30) rows of the file, in file order, and no row beyond *)
(* the 30th.                                                               *)

\* the body of the k-th chunk of a bundle: what lies between its header and
\* the separator before the next header, or the end of the bundle
ChunkBody(text, k) ==
    LET names == ChunkNames(text)
        start == HeaderPosition(text, k) + Len(names[k]) + 5
        stop == IF k < Len(names) THEN HeaderPosition(text, k + 1) - 6
                ELSE Len(text) IN
    SubSeq(text, start, stop)

\* the entry of the context directory with the given name
EntryNamed(name) ==
    CHOOSE f \in {context_dir.entries[k] : k \in DOMAIN context_dir.entries} :
        f.name = name

IsCsv(f) == Lower(Suffix(f.name)) = <<".", "c", "s", "v">>

\* the first min(n, 30) of n rows
FirstThirty(rows) == SubSeq(rows, 1, IF Len(rows) < 30 THEN Len(rows) ELSE 30)

C13_CsvPreviewFirstThirty ==
    BundleReturned
    => \A k \in DOMAIN ChunkNames(context_bundle) :
         LET f == EntryNamed(ChunkNames(context_bundle)[k]) IN
         IsCsv(f)
         => ChunkBody(context_bundle, k)
              = <<"CSV PREVIEW (first 30 rows):", "\n">>
                \o ReprList(FirstThirty(f.rows))

\* a file of more than 30 rows whose preview ends with the 30th
C13_Witness ==
    /\ BundleReturned
    /\ context_dir = CsvSizes
    /\ \E k \in DOMAIN ChunkNames(context_bundle) :
         LET f == EntryNamed(ChunkNames(context_bundle)[k])
             body == ChunkBody(context_bundle, k) IN
         /\ IsCsv(f) /\ Len(f.rows) > 30
         /\ Contains(body, <<",", " ">> \o CsvRow(30) \o <<"]">>)
         /\ ~Contains(body, CsvRow(31))

----------------------------------------------------------------------------
(* C14: the preview of a workbook covers its first sheets, at most 3, in   *)
(* workbook order, and for each of them the cells of rows 1..15 and        *)
(* columns 1..10 and no other cell, however large the sheet is.            *)

IsXlsx(f) == Lower(Suffix(f.name)) = <<".", "x", "l", "s", "x">>

\* the 15 x 10 top-left cells of a sheet, as the two parts of its preview
TopLeftOf(sheet) ==
    << <<"Sheet:", " ">> \o sheet.title,
       <<"Top-left preview (15x10):", "\n">>
       \o ReprList([r \in 1..15 |->
             ReprList([c \in 1..10 |-> CellValue(sheet, r, c)])]) >>

\* the first min(n, 3) of n sheets
FirstThree(sheets) == SubSeq(sheets, 1, IF Len(sheets) < 3 THEN Len(sheets) ELSE 3)

C14_XlsxPreviewBounded ==
    (BundleReturned /\ "openpyxl" \in installed)
    => \A k \in DOMAIN ChunkNames(context_bundle) :
         LET f == EntryNamed(ChunkNames(context_bundle)[k])
             used == FirstThree(f.sheets) IN
         IsXlsx(f)
         => ChunkBody(context_bundle, k)
              = Join(<<"\n">>, Concat([i \in 1..Len(used) |-> TopLeftOf(used[i])]))

\* a workbook of more than 3 sheets, the first one larger than 15 x 10: the
\* preview ends with the third sheet and holds no cell of row 16 or column 11
C14_Witness ==
    /\ BundleReturned /\ "openpyxl" \in installed
    /\ context_dir = BigXlsx
    /\ LET f == context_dir.entries[1]
           body == ChunkBody(context_bundle, 1) IN
       /\ Len(f.sheets) > 3
       /\ f.sheets[1].nrows > 15 /\ f.sheets[1].ncols > 10
       /\ Contains(body, <<"Sheet:", " ">> \o f.sheets[3].title)
       /\ ~Contains(body, <<"Sheet:", " ">> \o f.sheets[4].title)
       /\ Contains(body, <<"R">> \o TwoDigits(15) \o <<"C">> \o TwoDigits(10))
       /\ ~Contains(body, <<"R">> \o TwoDigits(16))
       /\ ~Contains(body, <<"C">> \o TwoDigits(11))

----------------------------------------------------------------------------
(* C15: for a file whose extension is none of .txt, .md, .csv, .xlsx and   *)
(* .pptx the bundler emits a chunk whose body is the unsupported-type      *)
(* marker, does not open the file, and goes on with the remaining files.   *)

SupportedExtensions ==
    { <<".", "t", "x", "t">>, <<".", "m", "d">>, <<".", "c", "s", "v">>,
      <<".", "x", "l", "s", "x">>, <<".", "p", "p", "t", "x">> }

Unsupported(f) == ~f.isdir /\ Lower(Suffix(f.name)) \notin SupportedExtensions

\* the file cannot be opened, or is not what its extension says
Defective(f) == ~f.readable \/ ~f.container \/ f.badRow > 0

Entries == {context_dir.entries[k] : k \in DOMAIN context_dir.entries}

C15_UnsupportedIsMarked ==
    /\ BundleReturned
       => LET names == ChunkNames(context_bundle) IN
          \A f \in Entries :
            Unsupported(f)
            => /\ \E k \in DOMAIN names :
                    /\ names[k] = f.name
                    /\ ChunkBody(context_bundle, k)
                         = <<"(Skipped unsupported file type:", " ">>
                           \o Lower(Suffix(f.name)) \o <<")">>
               /\ \A g \in Entries :
                    ~g.isdir => \E k \in DOMAIN names : names[k] = g.name
    /\ error \in IngestionErrors
       => \E f \in Entries : ~Unsupported(f) /\ ~f.isdir /\ Defective(f)

\* a .docx that cannot be opened, followed by a file that is read
C15_Witness ==
    /\ BundleReturned
    /\ \E f \in Entries : Unsupported(f) /\ Defective(f)
    /\ LET names == ChunkNames(context_bundle) IN
       /\ Len(names) = 2
       /\ Unsupported(EntryNamed(names[1]))
       /\ ChunkBody(context_bundle, 1)
            = <<"(Skipped unsupported file type:", " ", ".", "d", "o", "c", "x", ")">>
       /\ ChunkBody(context_bundle, 2) = <<"notes">>

----------------------------------------------------------------------------
(* C16: a run that ends with status 0 has written notes_raw, prd,          *)
(* roi_review and jira_plan, and has written context exactly when the      *)
(* bundle is not empty; a run ended by a failure (a wrong command line, a  *)
(* missing file, an exception of ingestion or of the agent) has status 1.  *)

C16_StatusZeroIffComplete ==
    /\ Exited(0)
       => /\ \A path \in {"out/notes_raw.txt", "out/prd.md",
                           "out/roi_review.md", "out/jira_plan.json"} :
               Written(path) /\ fs[path].present
          /\ Written("out/context.md") <=> context_bundle # <<>>
          /\ context_bundle = Bundle.text
          /\ error = "none"
    /\ (error # "none" \/ \E c \in AllCalls : ~events[c].ok)
       => Exited(1)
    /\ pc = "exited" => exit_status \in {0, 1}

\* a complete run over a context directory that holds files
C16_Witness ==
    /\ Exited(0)
    /\ context_bundle # <<>>
    /\ \A path \in OutPaths \ {"out/notes.json"} : Written(path)

----------------------------------------------------------------------------
(* C17: against an agent that returns a fixed text for each (instruction,  *)
(* payload), the second computation of the context pack and of the         *)
(* combined input (lines 175-184) changes nothing: it leaves               *)
(* combined_input and the file out/context.md as the first computation     *)
(* (lines 158-173) left them, whatever the bundle and whatever the         *)
(* Librarian returned, an empty or whitespace-only text included.          *)

\* main is in the second computation
InSecondPass == pc \in {"librarian_2", "librarian_2_write", "combine_2"}

C17_SecondPassEquivalent ==
    [][(mocked /\ InSecondPass /\ pc' # "exited")
       => /\ combined_input' = combined_input
          /\ fs'["out/context.md"] = fs["out/context.md"]]_vars

----------------------------------------------------------------------------
(* C18: no step of a run changes the transcript file, an instruction file  *)
(* or the context directory, whatever transcript path was given; a step    *)
(* changes no file but the six artifacts under out/.                       *)

C18_InputsUntouched ==
    [][/\ \A p \in InputPaths : fs'[p] = fs[p]
       /\ context_dir' = context_dir
       /\ \A p \in Paths : fs'[p] # fs[p] => p \in OutPaths]_vars

----------------------------------------------------------------------------
(* C19: at every point of a run, and after it ended for whatever reason,   *)
(* the artifacts written so far are closed under the stage order: if       *)
(* jira_plan has been written so has roi_review, if roi_review so has prd, *)
(* if prd so has notes_raw, and if notes.json so has notes_raw; each was   *)
(* written before the one that requires it.                                *)

\* path was written, and before any write to later
WrittenBefore(path, later) ==
    \E w \in WritesTo(path) : \A v \in WritesTo(later) : w < v

C19_ArtifactsClosed ==
    /\ Written("out/jira_plan.json")
       => WrittenBefore("out/roi_review.md", "out/jira_plan.json")
    /\ Written("out/roi_review.md")
       => WrittenBefore("out/prd.md", "out/roi_review.md")
    /\ Written("out/prd.md")
       => WrittenBefore("out/notes_raw.txt", "out/prd.md")
    /\ Written("out/notes.json")
       => WrittenBefore("out/notes_raw.txt", "out/notes.json")

\* a run the agent ended at stage 3, after notes_raw, notes.json and prd
C19_Witness ==
    /\ Exited(1)
    /\ error = "APIError"
    /\ Written("out/notes_raw.txt")
    /\ Written("out/notes.json")
    /\ Written("out/prd.md")
    /\ ~Written("out/roi_review.md")
    /\ ~Written("out/jira_plan.json")

----------------------------------------------------------------------------
(* C20: build_context_bundle returns a non-empty text exactly when the     *)
(* context directory exists and has at least one direct child that is not  *)
(* a directory; so the Librarian is invoked whenever the directory holds a *)
(* file, even when every file is empty or of an unsupported type.          *)

\* the context directory exists and holds a file
HoldsFile == context_dir.exists /\ \E f \in Entries : ~f.isdir

C20_BundleNonEmptyIffFile ==
    [][/\ pc = "read_inputs"
          => /\ pc' = "librarian_1"
             /\ context_bundle' # <<>> <=> HoldsFile
       /\ (pc = "librarian_1" /\ HoldsFile
           /\ fs["agents/librarian.txt"].present)
          => /\ Len(events') = Len(events) + 1
             /\ IsCall(events'[Len(events')])
             /\ StageOf(events'[Len(events')]) = 0
             /\ events'[Len(events')].text = context_bundle]_vars

====
